---- MODULE Spec2Model ----
(***************************************************************************)
(* Model of src/src/index.js: the /api/save relay (handleSave) with its    *)
(* bounded reader (readLimited), its sanitizers (safeText, toInt, toMoney) *)
(* and the signed forward to the downstream endpoint.                      *)
(*                                                                         *)
(* Strings are sequences of one-character strings.  JavaScript values are  *)
(* records [k, s, n]: k is the type tag, s the characters of a string, n   *)
(* the value of a finite number in thousandths.                            *)
(***************************************************************************)
EXTENDS Integers, Sequences, FiniteSets, TLC

VARIABLES
    \* ---- sanitizer harness (specification SanSpec) ----
    sfn,        \* which sanitizer is applied: "safeText", "toInt", "toMoney", or "none"
    sv,         \* the input value
    smax,       \* the length cap handed to safeText
    sstep,      \* how many times the sanitizer has been applied (0, 1, 2)
    sout1,      \* the result of the first application
    sout2,      \* the result of applying it again to sout1
    \* ---- one request to handleSave (specification Spec) ----
    pc,         \* position in handleSave
    mode,       \* "stream": request.body has getReader; "whole": it has not
    body,       \* the request body: its byte layout and what it parses to
    hdrs,       \* request headers
    remaining,  \* bytes the stream has not yet delivered
    nchunks,    \* chunks delivered so far
    received,   \* readLimited's received
    buf,        \* what readLimited returned
    parsed,     \* JSON.parse(raw): rows in handleSave
    idx,        \* position of the for-of loop over dataRows
    norm,       \* norm
    payload,    \* payload
    env_sent,   \* tsHeader, bodyString, bodyHash, signature
    calls,      \* the downstream calls made, in order
    res,        \* the downstream response
    response,   \* the response returned to the caller
    outcome,    \* "running", "returned" or "threw"
    now,        \* the clock
    ran,        \* the stages that have executed
    tValidated  \* the clock when the last row passed validation

sanVars == <<sfn, sv, smax, sstep, sout1, sout2>>
reqVars == <<pc, mode, body, hdrs, remaining, nchunks, received, buf, parsed, idx, norm,
             payload, env_sent, calls, res, response, outcome, now, ran, tValidated>>
vars == <<sanVars, reqVars>>

----------------------------------------------------------------------------
(* Bounds of the model *)

\* longest free part of an input string (after its padding)
MaxTail == 3
\* most rows in a submission
MaxRows == 2
\* most chunks a streamed body arrives in
MaxChunks == 3
\* most bytes of a body that are not valid UTF-8
MaxInvalid == 1
\* the clock stops advancing here
MaxClock == 1
\* the length of a body that is nowhere near the limit
SmallBody == 512

----------------------------------------------------------------------------
(* JavaScript values *)

Undefined == [k |-> "undefined", s |-> <<>>, n |-> 0]
Null      == [k |-> "null", s |-> <<>>, n |-> 0]
Obj       == [k |-> "object", s |-> <<>>, n |-> 0]
Infinity  == [k |-> "infinity", s |-> <<>>, n |-> 0]
Str(s)    == [k |-> "string", s |-> s, n |-> 0]
\* a finite number, m thousandths
Num(m)    == [k |-> "number", s |-> <<>>, n |-> m]
\* the number q
NumberOf(q) == Num(1000 * q)

Digits == <<"0", "1", "2", "3", "4", "5", "6", "7", "8", "9">>
IsDigit(c) == \E d \in 1..10 : Digits[d] = c
DigitVal(c) == (CHOOSE d \in 1..10 : Digits[d] = c) - 1

\* U+0000..U+001F, represented by tab and line feed
IsCtl(c) == c \in {"\t", "\n"}
\* what String.prototype.trim and the number parsers skip
IsSpace(c) == c \in {" ", "\t", "\n"}

RECURSIVE IntToStr(_)
\* the decimal digits of n >= 0
IntToStr(n) ==
    IF n < 10 THEN <<Digits[n + 1]>>
    ELSE IntToStr(n \div 10) \o <<Digits[(n % 10) + 1]>>

\* Number::toString of a finite number of m thousandths (|value| < 1e21)
NumToStr(m) ==
    LET a  == IF m < 0 THEN -m ELSE m
        ip == a \div 1000
        fp == a % 1000
        d3 == <<Digits[(fp \div 100) + 1], Digits[((fp \div 10) % 10) + 1], Digits[(fp % 10) + 1]>>
        fr == IF fp = 0 THEN <<>>
              ELSE IF fp % 100 = 0 THEN <<".">> \o SubSeq(d3, 1, 1)
              ELSE IF fp % 10 = 0 THEN <<".">> \o SubSeq(d3, 1, 2)
              ELSE <<".">> \o d3
    IN (IF m < 0 THEN <<"-">> ELSE <<>>) \o IntToStr(ip) \o fr

\* String(v)
String(v) ==
    CASE v.k = "string"    -> v.s
      [] v.k = "number"    -> NumToStr(v.n)
      [] v.k = "undefined" -> <<"u", "n", "d", "e", "f", "i", "n", "e", "d">>
      [] v.k = "null"      -> <<"n", "u", "l", "l">>
      [] v.k = "infinity"  -> <<"I", "n", "f", "i", "n", "i", "t", "y">>
      [] OTHER             -> <<"[", "o", "b", "j", "e", "c", "t", " ", "O", "b", "j", "e", "c", "t", "]">>

RECURSIVE LeadSp(_, _)
\* the first index >= i of s that holds no white space
LeadSp(s, i) == IF i <= Len(s) /\ IsSpace(s[i]) THEN LeadSp(s, i + 1) ELSE i

RECURSIVE TrailSp(_, _)
\* the last index <= i of s that holds no white space
TrailSp(s, i) == IF i >= 1 /\ IsSpace(s[i]) THEN TrailSp(s, i - 1) ELSE i

RECURSIVE DigitsEnd(_, _)
\* the first index >= i of s that holds no digit
DigitsEnd(s, i) == IF i <= Len(s) /\ IsDigit(s[i]) THEN DigitsEnd(s, i + 1) ELSE i

RECURSIVE DecVal(_, _, _)
\* the value of the digits s[i..j]
DecVal(s, i, j) == IF j < i THEN 0 ELSE 10 * DecVal(s, i, j - 1) + DigitVal(s[j])

\* a parsed number: fin = FALSE is NaN or an infinity
NaN == [fin |-> FALSE, v |-> 0]
Fin(x) == [fin |-> TRUE, v |-> x]

\* Number.parseInt(s, 10): the value in units
parseInt(s) ==
    LET i0  == LeadSp(s, 1)
        sgn == i0 <= Len(s) /\ s[i0] \in {"-", "+"}
        i1  == IF sgn THEN i0 + 1 ELSE i0
        i2  == DigitsEnd(s, i1)
        mag == DecVal(s, i1, i2 - 1)
    IN IF i2 = i1 THEN NaN
       ELSE Fin(IF sgn /\ s[i0] = "-" THEN -mag ELSE mag)

\* Number.parseFloat(s): the value in thousandths.  Inputs carry no exponent
\* and at most three digits after the point that matter.
parseFloat(s) ==
    LET i0  == LeadSp(s, 1)
        sgn == i0 <= Len(s) /\ s[i0] \in {"-", "+"}
        i1  == IF sgn THEN i0 + 1 ELSE i0
        i2  == DigitsEnd(s, i1)
        dot == i2 <= Len(s) /\ s[i2] = "."
        i3  == IF dot THEN DigitsEnd(s, i2 + 1) ELSE i2
        nfr == IF dot THEN i3 - (i2 + 1) ELSE 0
        fd(j) == IF j <= nfr THEN DigitVal(s[i2 + j]) ELSE 0
        mag == 1000 * DecVal(s, i1, i2 - 1) + 100 * fd(1) + 10 * fd(2) + fd(3)
    IN IF i2 = i1 /\ nfr = 0 THEN NaN
       ELSE Fin(IF sgn /\ s[i0] = "-" THEN -mag ELSE mag)

\* Number.prototype.toFixed(2) of m >= 0 thousandths
toFixed2(m) ==
    LET c == (m + 5) \div 10
    IN IntToStr(c \div 100) \o <<".", Digits[((c \div 10) % 10) + 1], Digits[(c % 10) + 1]>>

----------------------------------------------------------------------------
(* Sanitizers *)

\* v.replace(/[<>]/g, "")
StripAngle(s) == SelectSeq(s, LAMBDA c : c \notin {"<", ">"})

\* s.replace(/[\u0000-\u001F]+/g, " ")
ReplaceCtl(s) ==
    LET first == SelectSeq([i \in 1..Len(s) |-> i],
                           LAMBDA i : ~IsCtl(s[i]) \/ i = 1 \/ ~IsCtl(s[i - 1]))
    IN [j \in 1..Len(first) |-> IF IsCtl(s[first[j]]) THEN " " ELSE s[first[j]]]

\* s.trim()
Trim(s) == SubSeq(s, LeadSp(s, 1), TrailSp(s, Len(s)))

\* safeText without the removal of '<' and '>'
safeText_keepsAngle(v, max) ==
    IF v.k # "string" THEN <<>>
    ELSE LET s == Trim(ReplaceCtl(v.s))
         IN IF Len(s) > max THEN SubSeq(s, 1, max) ELSE s

\* safeText(v, max)
safeText(v, max) ==
    IF v.k # "string" THEN <<>>
    ELSE LET s == Trim(ReplaceCtl(StripAngle(v.s)))
         IN IF Len(s) > max THEN SubSeq(s, 1, max) ELSE s

Min2(a, b) == IF a < b THEN a ELSE b
Max2(a, b) == IF a > b THEN a ELSE b

\* toInt(v, min, max)
toInt(v, min, max) ==
    LET n == parseInt(String(v))
    IN IF ~n.fin THEN 0 ELSE Min2(Max2(n.v, min), max)

\* toMoney(v)
toMoney(v) ==
    LET n == parseFloat(String(v))
    IN IF ~n.fin \/ n.v < 0 THEN <<"0", ".", "0", "0">> ELSE toFixed2(n.v)

----------------------------------------------------------------------------
(* The sanitizers applied once and again (specification SanSpec) *)

TS_MAX   == 64
ITEM_MAX == 96
QTY_MIN  == 1
QTY_MAX  == 9999
ADDR_MAX == 200
WA_MAX   == 50
EMAIL_MAX == 120
COORD_MAX == 32

Caps == {TS_MAX, ITEM_MAX, ADDR_MAX, WA_MAX, EMAIL_MAX, COORD_MAX}

Pad(k) == [i \in 1..k |-> "a"]
Seqs(A, n) == UNION {[1..k -> A] : k \in 0..n}

TextAlphabet == {"a", " ", "<", ">", "\t"}
NumAlphabet  == {"-", "0", "1", "9", ".", " ", "x"}

TextValues(max) ==
    {Undefined, Null, Obj, Num(2000)}
    \cup {Str(Pad(p) \o t) : p \in {0, max - 2, max - 1, max}, t \in Seqs(TextAlphabet, MaxTail)}

NumValues ==
    {Undefined, Null, Obj, Infinity}
    \cup {Num(m) : m \in {-2700, -1000, -1, 0, 1, 999, 1000, 2700, 9999000, 9999001, 10000000}}
    \cup {Str(p \o t) : p \in {<<>>, <<"9", "9">>}, t \in Seqs(NumAlphabet, MaxTail)}

SanIdle ==
    /\ sfn = "none" /\ sv = Undefined /\ smax = 0
    /\ sstep = 0 /\ sout1 = Undefined /\ sout2 = Undefined

SanInputs ==
    /\ sfn \in {"safeText", "toInt", "toMoney"}
    /\ smax \in IF sfn = "safeText" THEN Caps ELSE {0}
    /\ sv \in IF sfn = "safeText" THEN TextValues(smax) ELSE NumValues
    /\ sstep = 0 /\ sout1 = Undefined /\ sout2 = Undefined

ApplySafeText ==
    /\ sfn = "safeText" /\ sstep = 0
    /\ sout1' = Str(safeText(sv, smax))
    /\ sstep' = 1
    /\ UNCHANGED <<sfn, sv, smax, sout2, reqVars>>

ReapplySafeText ==
    /\ sfn = "safeText" /\ sstep = 1
    /\ sout2' = Str(safeText(sout1, smax))
    /\ sstep' = 2
    /\ UNCHANGED <<sfn, sv, smax, sout1, reqVars>>

ApplyToInt ==
    /\ sfn = "toInt" /\ sstep = 0
    /\ sout1' = NumberOf(toInt(sv, QTY_MIN, QTY_MAX))
    /\ sstep' = 1
    /\ UNCHANGED <<sfn, sv, smax, sout2, reqVars>>

ReapplyToInt ==
    /\ sfn = "toInt" /\ sstep = 1
    /\ sout2' = NumberOf(toInt(sout1, QTY_MIN, QTY_MAX))
    /\ sstep' = 2
    /\ UNCHANGED <<sfn, sv, smax, sout1, reqVars>>

ApplyToMoney ==
    /\ sfn = "toMoney" /\ sstep = 0
    /\ sout1' = Str(toMoney(sv))
    /\ sstep' = 1
    /\ UNCHANGED <<sfn, sv, smax, sout2, reqVars>>

ReapplyToMoney ==
    /\ sfn = "toMoney" /\ sstep = 1
    /\ sout2' = Str(toMoney(sout1))
    /\ sstep' = 2
    /\ UNCHANGED <<sfn, sv, smax, sout1, reqVars>>

SanNext ==
    \/ ApplySafeText
    \/ ReapplySafeText
    \/ ApplyToInt
    \/ ReapplyToInt
    \/ ApplyToMoney
    \/ ReapplyToMoney

----------------------------------------------------------------------------
(* The request: its body, what the body parses to, its headers *)

\* const MAX = 64 * 1024
MAX == 65536

\* env.SIGNING_KEY, env.APP_SCRIPT_URL, env.ASSET_ID, env.KID
SIGNING_KEY    == "env.SIGNING_KEY"
APP_SCRIPT_URL == "env.APP_SCRIPT_URL"
ASSET_ID       == "env.ASSET_ID"
KID            == "env.KID"

\* const IVA_RATE = 0.15, in thousandths
IVA_RATE == 150

\* an element of the parsed row collection: an object with the six fields
\* (a missing field is undefined), null, or a primitive
RowObj(ts, item, qty, sub, vat, tot) ==
    [k |-> "object", timestamp |-> ts, item |-> item, qty |-> qty,
     subtotal |-> sub, vat |-> vat, total |-> tot]
RowNull == [k |-> "null", timestamp |-> Undefined, item |-> Undefined, qty |-> Undefined,
            subtotal |-> Undefined, vat |-> Undefined, total |-> Undefined]
RowNum  == [k |-> "number", timestamp |-> Undefined, item |-> Undefined, qty |-> Undefined,
            subtotal |-> Undefined, vat |-> Undefined, total |-> Undefined]

RowA == RowObj(Str(<<"t", "1">>), Str(<<"C", "o", "f", "f", "e", "e">>), Str(<<"2">>),
               Str(<<"3">>), Str(<<"0", ".", "4", "5">>), Str(<<"3", ".", "4", "5">>))
RowZeroQty == RowObj(Str(<<"t">>), Str(<<"x">>), Num(0), Num(1000), Num(150), Num(1150))
RowNegQty  == RowObj(Str(<<"t">>), Str(<<"x">>), Str(<<"-", "5">>), Str(<<"-", "1">>), Null, Str(<<"x">>))
RowBadQty  == RowObj(Str(<<"t">>), Str(<<"x">>), Str(<<"a", "b", "c">>), Num(1000), Num(150), Num(1150))
RowNoItem  == RowObj(Str(<<"t">>), Str(<<"<", ">", "\t">>), Num(3000), Num(1000), Num(150), Num(1150))
RowNoTs    == RowObj(Undefined, Str(<<"x">>), Num(3000), Num(1000), Num(150), Num(1150))
RowLong    == RowObj(Str(Pad(TS_MAX - 1) \o <<" ", "b">>),
                     Str(<<"\t", "<", "s", "c", "r", "i", "p", "t", ">">> \o Pad(ITEM_MAX) \o <<"<", "/", "s", "c", "r", "i", "p", "t", ">">>),
                     Num(10000000), Num(2999), Infinity, Obj)

SampleRows == {RowA, RowZeroQty, RowNegQty, RowBadQty, RowNoItem, RowNoTs, RowLong,
               RowNull, RowNum}

\* the optional fields of a wrapper object
NoOpt == [delivery_address |-> Undefined, whatsapp |-> Undefined, email |-> Undefined,
          delivery_lat |-> Undefined, delivery_lng |-> Undefined]
SomeOpt == [delivery_address |-> Str(<<"<", "b", ">", "1", " ", "M", "a", "i", "n", "\n">>),
            whatsapp |-> Num(5551000), email |-> Str(<<"a", "@", "b", ".", "c", "o", "m">>),
            delivery_lat |-> Str(Pad(COORD_MAX + 1)), delivery_lng |-> Null]

\* what the body parses to.  shape: "invalid" (JSON.parse throws), "null",
\* "scalar", "object" (no rows array), "wrapper" (an object whose rows is an
\* array) or "array"
Json(shape, rows, opt) == [shape |-> shape, rows |-> rows, opt |-> opt]
NoJson == Json("invalid", <<>>, NoOpt)

RowLists == Seqs(SampleRows, MaxRows)

AllJson ==
    {Json(sh, <<>>, NoOpt) : sh \in {"invalid", "null", "scalar", "object"}}
    \cup {Json("array", rs, NoOpt) : rs \in RowLists}
    \cup {Json("wrapper", rs, SomeOpt) : rs \in {<<>>, <<RowA>>, <<RowNull>>, <<RowLong, RowA>>, <<RowA, RowNoItem>>}}

FewJson ==
    {NoJson, Json("array", <<RowA>>, NoOpt), Json("wrapper", <<>>, SomeOpt)}

\* the bytes of a body: a UTF-8 byte order mark or none, the bytes of well-formed
\* UTF-8 sequences, and the bytes that belong to none (each decodes to U+FFFD)
Layout(bom, valid, invalid) == [bom |-> bom, valid |-> valid, invalid |-> invalid]

SmallLayouts == {Layout(FALSE, SmallBody, 0)}
EdgeLayouts ==
    {Layout(b, v, i) : b \in BOOLEAN, v \in {MAX - 3, MAX - 1, MAX, MAX + 1}, i \in 0..MaxInvalid}

\* the length of the body, in bytes
BodyLen(b) == (IF b.lay.bom THEN 3 ELSE 0) + b.lay.valid + b.lay.invalid

HeaderSamples ==
    {[cf |-> "", xff |-> "", ua |-> ""],
     [cf |-> "203.0.113.9", xff |-> "10.0.0.1", ua |-> "curl/8"]}

----------------------------------------------------------------------------
(* Helpers of handleSave *)

\* JSON.stringify(obj): one string per value
Stringify(obj) == [json |-> obj]

\* json(obj, status)
json(obj, status) ==
    [status |-> status, contentType |-> "application/json; charset=utf-8", body |-> Stringify(obj)]

NoResponse == [status |-> 0, contentType |-> "", body |-> Stringify([none |-> TRUE])]

\* request.text().catch(() => ""): the body UTF-8 decoded as the Fetch standard
\* has it (a leading byte order mark is dropped, every byte of no well-formed
\* sequence becomes U+FFFD); "" when the read fails
requestText(lay, fails) ==
    IF fails THEN [bytes |-> 0, repl |-> 0] ELSE [bytes |-> lay.valid, repl |-> lay.invalid]

\* new TextEncoder().encode(t).byteLength: U+FFFD takes three bytes
encodedLen(t) == t.bytes + 3 * t.repl

\* the sizes the next chunk of the stream may have
ChunkSizes(rem, k) ==
    IF k + 1 >= MaxChunks THEN {rem}
    ELSE {c \in {1, rem \div 2, rem - 1, rem} : c >= 1}

\* Array.isArray(rows) or Array.isArray(rows?.rows)
hasRows(j) == j.shape \in {"array", "wrapper"}

\* getOpt(wrapper, key), wrapper being null for a bare array
getOpt(j, key) == IF j.shape = "wrapper" THEN j.opt[key] ELSE Undefined

\* the sanitized fields of one row
rowFields(r) ==
    [timestamp    |-> safeText(r.timestamp, TS_MAX),
     item_name    |-> safeText(r.item, ITEM_MAX),
     qty          |-> toInt(r.qty, QTY_MIN, QTY_MAX),
     subtotal_usd |-> toMoney(r.subtotal),
     vat_usd      |-> toMoney(r.vat),
     total_usd    |-> toMoney(r.total)]

\* !timestamp || !item_name || qty <= 0
rowInvalid(f) == f.timestamp = <<>> \/ f.item_name = <<>> \/ f.qty <= 0

\* the row pushed to norm
normRow(f) ==
    [timestamp |-> f.timestamp, item_name |-> f.item_name, qty |-> f.qty,
     subtotal_usd |-> f.subtotal_usd, vat_usd |-> f.vat_usd, total_usd |-> f.total_usd,
     currency |-> "USD", iva_rate |-> IVA_RATE]

\* CF-Connecting-IP || X-Forwarded-For || ""
sourceIp(h) == IF h.cf # "" THEN h.cf ELSE h.xff

makePayload(rows, j, h) ==
    [rows |-> rows,
     source_ip |-> sourceIp(h),
     user_agent |-> h.ua,
     delivery_address |-> safeText(getOpt(j, "delivery_address"), ADDR_MAX),
     whatsapp |-> safeText(getOpt(j, "whatsapp"), WA_MAX),
     email |-> safeText(getOpt(j, "email"), EMAIL_MAX),
     delivery_lat |-> safeText(getOpt(j, "delivery_lat"), COORD_MAX),
     delivery_lng |-> safeText(getOpt(j, "delivery_lng"), COORD_MAX),
     status |-> "pending"]

\* new Date().toISOString() at clock t
toISOString(t) == [iso |-> t]

\* sha256base64(str) and hmacSha256Base64(secret, message): one digest per input
sha256base64(str) == [sha256b64 |-> str]
hmacSha256Base64(secret, message) == [hmacb64 |-> [key |-> secret, message |-> message]]

\* `${tsHeader}.${bodyHash}`
signedMessage(ts, bh) == [left |-> ts, dot |-> ".", right |-> bh]

\* signEnvelope with the timestamp of the request's arrival
signEnvelope_tsAtArrival(p, t) ==
    LET ts == toISOString(0)
        bs == Stringify(p)
        bh == sha256base64(bs)
    IN [tsHeader |-> ts, bodyString |-> bs, bodyHash |-> bh,
        signature |-> hmacSha256Base64(SIGNING_KEY, signedMessage(ts, bh))]

\* tsHeader, bodyString, bodyHash and signature of payload p at clock t
signEnvelope(p, t) ==
    LET ts == toISOString(t)
        bs == Stringify(p)
        bh == sha256base64(bs)
    IN [tsHeader |-> ts, bodyString |-> bs, bodyHash |-> bh,
        signature |-> hmacSha256Base64(SIGNING_KEY, signedMessage(ts, bh))]

NoEnvelope == signEnvelope([none |-> TRUE], 0)

Lit(s) == [lit |-> s]

\* the downstream request built from the envelope e
relayRequest(e) ==
    [url |-> APP_SCRIPT_URL,
     method |-> "POST",
     headers |-> [h \in {"Content-Type", "X-Asset-ID", "X-KID", "X-Timestamp", "X-Body-Hash", "X-Signature"} |->
                    CASE h = "Content-Type" -> Lit("application/json")
                      [] h = "X-Asset-ID"   -> Lit(ASSET_ID)
                      [] h = "X-KID"        -> Lit(KID)
                      [] h = "X-Timestamp"  -> e.tsHeader
                      [] h = "X-Body-Hash"  -> e.bodyHash
                      [] OTHER              -> e.signature],
     body |-> e.bodyString]

\* res.ok
resOk(status) == 200 <= status /\ status <= 299

Lower(c) ==
    CASE c = "S" -> "s" [] c = "U" -> "u" [] c = "C" -> "c" [] c = "E" -> "e" [] OTHER -> c

SuccessMarker == <<"s", "u", "c", "c", "e", "s", "s">>

\* /success/i.test(text)
hasSuccess(text) ==
    \E i \in 1..(Len(text) - 6) : \A j \in 1..7 : Lower(text[i + j - 1]) = SuccessMarker[j]

BODY_MAX == 3000

\* text.slice(0, 3000)
sliceBody(text) == SubSeq(text, 1, Min2(Len(text), BODY_MAX))

\* the text res.text().catch(() => "") yields
textOf(r) == IF r.readable THEN r.text ELSE <<>>

\* relayResult without the test of res.ok
relayResult_markerOnly(r) ==
    LET text == textOf(r)
    IN IF hasSuccess(text)
       THEN json([ok |-> TRUE, forwarded |-> TRUE], 200)
       ELSE json([ok |-> FALSE, forwarded |-> FALSE, status |-> r.status, body |-> sliceBody(text)], 502)

\* the answer to the caller once the downstream response r is in
relayResult(r) ==
    LET text == textOf(r)
    IN IF resOk(r.status) /\ hasSuccess(text)
       THEN json([ok |-> TRUE, forwarded |-> TRUE], 200)
       ELSE json([ok |-> FALSE, forwarded |-> FALSE, status |-> r.status, body |-> sliceBody(text)], 502)

Statuses == {200, 299, 300, 500}

Texts ==
    {<<>>,
     <<"s", "u", "c", "c", "e", "s", "s">>,
     <<"{", "S", "u", "c", "C", "E", "S", "S", "}">>,
     <<"f", "a", "i", "l", ":", " ", "d", "b", " ", "d", "o", "w", "n">>,
     Pad(BODY_MAX - 2) \o <<"s", "u", "c", "c", "e", "s", "s">>}

\* the text the downstream sends, and whether res.text() can read it
TextReads ==
    {[text |-> tx, readable |-> TRUE] : tx \in Texts}
    \cup {[text |-> <<"s", "u", "c", "c", "e", "s", "s">>, readable |-> FALSE]}

NoRes == [status |-> 0, text |-> <<>>, readable |-> FALSE]

----------------------------------------------------------------------------
(* handleSave, one request *)

ReqIdle ==
    /\ pc = "idle" /\ mode = "whole"
    /\ body = [lay |-> Layout(FALSE, 0, 0), json |-> NoJson]
    /\ hdrs = [cf |-> "", xff |-> "", ua |-> ""]
    /\ remaining = 0 /\ nchunks = 0 /\ received = 0
    /\ buf = [len |-> 0, from |-> "nothing"]
    /\ parsed = NoJson /\ idx = 0 /\ norm = <<>>
    /\ payload = makePayload(<<>>, NoJson, hdrs)
    /\ env_sent = NoEnvelope /\ calls = <<>> /\ res = NoRes
    /\ response = NoResponse /\ outcome = "returned"
    /\ now = 0 /\ ran = {} /\ tValidated = 0

ReqInputs ==
    /\ pc = "read"
    /\ mode \in {"stream", "whole"}
    /\ \/ body \in [lay : SmallLayouts, json : AllJson]
       \/ body \in [lay : EdgeLayouts, json : FewJson]
    /\ hdrs \in HeaderSamples
    /\ remaining = BodyLen(body) /\ nchunks = 0 /\ received = 0
    /\ buf = [len |-> 0, from |-> "nothing"]
    /\ parsed = NoJson /\ idx = 0 /\ norm = <<>>
    /\ payload = makePayload(<<>>, NoJson, [cf |-> "", xff |-> "", ua |-> ""])
    /\ env_sent = NoEnvelope /\ calls = <<>> /\ res = NoRes
    /\ response = NoResponse /\ outcome = "running"
    /\ now = 0 /\ ran = {} /\ tValidated = 0

\* return resp
Return(resp) == response' = resp /\ outcome' = "returned" /\ pc' = "end"
\* an exception leaves handleSave
Throw == outcome' = "threw" /\ pc' = "end" /\ UNCHANGED response
\* go on at p
Goto(p) == pc' = p /\ UNCHANGED <<response, outcome>>

\* readLimited without a reader: request.text(), then the length of its encoding
ReadWhole ==
    /\ pc = "read" /\ mode = "whole"
    /\ \E fails \in BOOLEAN :
         LET n == encodedLen(requestText(body.lay, fails))
         IN IF n > MAX
            THEN Return(json([ok |-> FALSE, error |-> "payload_too_large"], 413)) /\ UNCHANGED buf
            ELSE buf' = [len |-> n, from |-> IF fails THEN "nothing" ELSE "body"] /\ Goto("parse")
    /\ UNCHANGED <<sanVars, mode, body, hdrs, remaining, nchunks, received, parsed, idx, norm,
                   payload, env_sent, calls, res, now, ran, tValidated>>

\* readLimited with a reader: one reader.read() that yields a chunk (the stream
\* delivers the whole body: a body that breaks off is the runtime's to handle)
ReadChunk ==
    /\ pc = "read" /\ mode = "stream" /\ remaining > 0
    /\ \E c \in ChunkSizes(remaining, nchunks) :
         /\ received' = received + c
         /\ remaining' = remaining - c
         /\ nchunks' = nchunks + 1
         /\ IF received + c > MAX
            THEN Return(json([ok |-> FALSE, error |-> "payload_too_large"], 413))
            ELSE Goto("read")
    /\ UNCHANGED <<sanVars, mode, body, hdrs, buf, parsed, idx, norm,
                   payload, env_sent, calls, res, now, ran, tValidated>>

\* readLimited with a reader: reader.read() yields done, concat(chunks) is returned
ReadEnd ==
    /\ pc = "read" /\ mode = "stream" /\ remaining = 0
    /\ buf' = [len |-> received, from |-> "body"]
    \* received and chunks are locals of readLimited: they end with the call
    /\ received' = 0 /\ nchunks' = 0
    /\ Goto("parse")
    /\ UNCHANGED <<sanVars, mode, body, hdrs, remaining, parsed, idx, norm,
                   payload, env_sent, calls, res, now, ran, tValidated>>

\* decode, JSON.parse, and the test that there are rows
Parse ==
    /\ pc = "parse"
    /\ ran' = ran \cup {"parse"}
    /\ LET j == IF buf.from = "body" THEN body.json ELSE NoJson
       IN IF j.shape = "invalid"
          THEN Return(json([ok |-> FALSE, error |-> "invalid_json"], 400)) /\ UNCHANGED <<parsed, idx>>
          ELSE /\ parsed' = j
               /\ IF ~hasRows(j) \/ Len(j.rows) = 0
                  THEN Return(json([ok |-> FALSE, error |-> "empty_rows"], 400)) /\ UNCHANGED idx
                  ELSE idx' = 1 /\ Goto("rows")
    /\ UNCHANGED <<sanVars, mode, body, hdrs, remaining, nchunks, received, buf, norm,
                   payload, env_sent, calls, res, now, tValidated>>

\* one turn of the loop over dataRows
SanitizeRow ==
    /\ pc = "rows" /\ idx <= Len(parsed.rows)
    /\ ran' = ran \cup {"sanitize"}
    /\ LET r == parsed.rows[idx]
           f == rowFields(r)
       IN IF r.k = "null"
          THEN Throw /\ UNCHANGED <<idx, norm, tValidated>>
          ELSE IF rowInvalid(f)
          THEN /\ Return(json([ok |-> FALSE, error |-> "invalid_row",
                               hint |-> [item_name |-> f.item_name, qty |-> f.qty]], 422))
               /\ UNCHANGED <<idx, norm, tValidated>>
          ELSE /\ norm' = Append(norm, normRow(f))
               /\ idx' = idx + 1
               /\ tValidated' = now
               /\ Goto("rows")
    /\ UNCHANGED <<sanVars, mode, body, hdrs, remaining, nchunks, received, buf, parsed,
                   payload, env_sent, calls, res, now>>

\* the loop is over: the payload is built
Assemble ==
    /\ pc = "rows" /\ idx > Len(parsed.rows)
    /\ payload' = makePayload(norm, parsed, hdrs)
    /\ Goto("sign")
    /\ UNCHANGED <<sanVars, mode, body, hdrs, remaining, nchunks, received, buf, parsed, idx, norm,
                   env_sent, calls, res, now, ran, tValidated>>

\* the timestamp, the serialization, the digest and the signature
Sign ==
    /\ pc = "sign"
    /\ ran' = ran \cup {"sign"}
    /\ env_sent' = signEnvelope(payload, now)
    /\ Goto("relay")
    /\ UNCHANGED <<sanVars, mode, body, hdrs, remaining, nchunks, received, buf, parsed, idx, norm,
                   payload, calls, res, now, tValidated>>

\* fetch(env.APP_SCRIPT_URL, ...) resolves with a response
RelayAnswered ==
    /\ pc = "relay"
    /\ ran' = ran \cup {"fetch"}
    /\ calls' = Append(calls, relayRequest(env_sent))
    /\ \E st \in Statuses, r \in TextReads :
         res' = [status |-> st, text |-> r.text, readable |-> r.readable]
    /\ Goto("interpret")
    /\ UNCHANGED <<sanVars, mode, body, hdrs, remaining, nchunks, received, buf, parsed, idx, norm,
                   payload, env_sent, now, tValidated>>

\* fetch(env.APP_SCRIPT_URL, ...) rejects: the endpoint cannot be reached
RelayUnreachable ==
    /\ pc = "relay"
    /\ ran' = ran \cup {"fetch"}
    /\ calls' = Append(calls, relayRequest(env_sent))
    /\ Throw
    /\ UNCHANGED <<sanVars, mode, body, hdrs, remaining, nchunks, received, buf, parsed, idx, norm,
                   payload, env_sent, res, now, tValidated>>

\* the response text is read and the answer returned
Interpret ==
    /\ pc = "interpret"
    /\ Return(relayResult(res))
    /\ UNCHANGED <<sanVars, mode, body, hdrs, remaining, nchunks, received, buf, parsed, idx, norm,
                   payload, env_sent, calls, res, now, ran, tValidated>>

\* time passes while the request is handled
Tick ==
    /\ outcome = "running" /\ now < MaxClock
    /\ now' = now + 1
    /\ UNCHANGED <<sanVars, pc, mode, body, hdrs, remaining, nchunks, received, buf, parsed, idx,
                   norm, payload, env_sent, calls, res, response, outcome, ran, tValidated>>

Init == SanIdle /\ ReqInputs

Next ==
    \/ ReadWhole
    \/ ReadChunk
    \/ ReadEnd
    \/ Parse
    \/ SanitizeRow
    \/ Assemble
    \/ Sign
    \/ RelayAnswered
    \/ RelayUnreachable
    \/ Interpret
    \/ Tick

Spec == Init /\ [][Next]_vars

SanInit == SanInputs /\ ReqIdle

SanSpec == SanInit /\ [][SanNext]_vars

----------------------------------------------------------------------------
(* Properties *)

Returned == outcome = "returned"
RespObj == response.body.json
ErrorIs(code) == Returned /\ "error" \in DOMAIN RespObj /\ RespObj.error = code

\* request.text() failed, so no body was delivered
TextReadFailed ==
    mode = "whole" /\ pc # "read" /\ buf.from = "nothing" /\ ~ErrorIs("payload_too_large")

\* C1: a request whose body was delivered is answered payload_too_large if and
\* only if the body is longer than 65536 bytes, and then no later stage has run
\* and nothing was sent downstream.
C1_TooLargeIffOverLimit ==
    /\ (Returned /\ ~TextReadFailed) => (ErrorIs("payload_too_large") <=> BodyLen(body) > MAX)
    /\ ErrorIs("payload_too_large") => (ran = {} /\ calls = <<>>)

\* row i of the parsed collection is an object or a primitive whose sanitized
\* fields fail the row test
RowFailsValidation(i) ==
    /\ parsed.rows[i].k # "null"
    /\ LET f == rowFields(parsed.rows[i])
       IN Len(f.timestamp) = 0 \/ Len(f.item_name) = 0 \/ f.qty <= 0

\* C2: once a request with a non-empty row list is over, if any row of the list
\* has an empty timestamp, an empty item_name or qty <= 0 after sanitization,
\* the answer is invalid_row and nothing was sent downstream.
C2_InvalidRowRejectsAll ==
    (/\ pc = "end"
     /\ hasRows(parsed) /\ Len(parsed.rows) > 0
     /\ \E i \in 1..Len(parsed.rows) : RowFailsValidation(i))
    => (ErrorIs("invalid_row") /\ calls = <<>>)

\* C3: no request ends with an exception leaving handleSave.
C3_AlwaysResponds == outcome # "threw"

ErrorCodes == {"payload_too_large", "invalid_json", "empty_rows", "invalid_row"}

\* C4: every response with ok = false carries an error code; a forwarding
\* failure carries status and body as well.
C4_FailureCarriesError ==
    (Returned /\ ~RespObj.ok) =>
        /\ "error" \in DOMAIN RespObj
        /\ (calls = <<>> => RespObj.error \in ErrorCodes)
        /\ (calls # <<>> => {"status", "body"} \subseteq DOMAIN RespObj)

\* C5: a sanitizer applied to its own result gives that result again.
C5_SanitizationIdempotent == sstep = 2 => sout2 = sout1

\* the text holds "success" at position i, in any case
MarkerAt(text, i) ==
    /\ text[i] \in {"s", "S"} /\ text[i + 1] \in {"u", "U"} /\ text[i + 2] \in {"c", "C"}
    /\ text[i + 3] \in {"c", "C"} /\ text[i + 4] \in {"e", "E"} /\ text[i + 5] \in {"s", "S"}
    /\ text[i + 6] \in {"s", "S"}

\* C6: once the downstream response is in and the caller is answered, the answer
\* is ok = true, forwarded = true exactly when the downstream status is 2xx and
\* the text read from it holds "success" in any case (a text that cannot be read
\* counts as empty); otherwise it is a failure with the downstream status and
\* the first 3000 characters of the text.
C6_SuccessIffOkAndMarker ==
    (Returned /\ calls # <<>>) =>
        LET text == IF res.readable THEN res.text ELSE <<>>
            good == /\ res.status \in 200..299
                    /\ \E i \in 1..(Len(text) - 6) : MarkerAt(text, i)
        IN /\ RespObj.ok <=> good
           /\ RespObj.ok => (RespObj.forwarded /\ DOMAIN RespObj = {"ok", "forwarded"})
           /\ ~RespObj.ok =>
                /\ ~RespObj.forwarded
                /\ RespObj.status = res.status
                /\ Len(RespObj.body) <= 3000
                /\ Len(RespObj.body) = (IF Len(text) < 3000 THEN Len(text) ELSE 3000)
                /\ \A i \in 1..Len(RespObj.body) : RespObj.body[i] = text[i]

\* a response with status 500 whose text is longer than 3000 characters was
\* answered with a failure carrying its first 3000 characters
C6_Witness ==
    /\ Returned /\ calls # <<>>
    /\ res.status = 500 /\ res.readable /\ Len(res.text) > 3000
    /\ ~RespObj.ok /\ Len(RespObj.body) = 3000

\* row i of the parsed collection is an object whose qty parses to an integer <= 0
QtyNonPositive(i) ==
    /\ parsed.rows[i].k = "object"
    /\ LET n == parseInt(String(parsed.rows[i].qty)) IN n.fin /\ n.v <= 0

\* C7: a submission with a row whose qty parses to 0 or a negative integer is
\* never sent downstream, and the answer to it, if any, is invalid_row.
C7_NonPositiveQtyRejected ==
    (hasRows(parsed) /\ \E i \in 1..Len(parsed.rows) : QtyNonPositive(i))
    => (calls = <<>> /\ (Returned => ErrorIs("invalid_row")))

\* C8: at most one downstream call per request, made only after the body was
\* within 65536 bytes, parsed, was an array or a wrapper with at least one row,
\* and every row passed validation; any other shape or an empty row list is
\* answered empty_rows and unparseable bytes invalid_json, with no call.
C8_RelayOnceAfterValidation ==
    /\ Len(calls) <= 1
    /\ calls # <<>> =>
         /\ BodyLen(body) <= MAX
         /\ body.json.shape \in {"array", "wrapper"}
         /\ Len(body.json.rows) >= 1
         /\ \A i \in 1..Len(body.json.rows) :
              body.json.rows[i].k # "null" /\ ~RowFailsValidation(i)
         /\ {"parse", "sanitize", "sign"} \subseteq ran
    /\ (Returned /\ "parse" \in ran /\ buf.from = "body") =>
         /\ body.json.shape = "invalid" => (ErrorIs("invalid_json") /\ calls = <<>>)
         /\ (body.json.shape \in {"null", "scalar", "object"} \/
             (body.json.shape \in {"array", "wrapper"} /\ Len(body.json.rows) = 0))
            => (ErrorIs("empty_rows") /\ calls = <<>>)

\* the characters of s are ordinary: no '<', no '>', no control character
Clean(s) == \A i \in 1..Len(s) : s[i] \notin {"<", ">", "\t", "\n"}

\* C9: the rows of every payload sent downstream are the sanitized input rows,
\* one for one and in order; each has a non-empty timestamp of at most 64
\* characters, a non-empty item_name of at most 96 characters without '<', '>'
\* or control characters, a qty in 1..9999 and currency "USD"; the payload's
\* status is "pending".
C9_ForwardedRowsSanitized ==
    \A c \in 1..Len(calls) :
        LET p  == calls[c].body.json
            in == body.json.rows
        IN /\ Len(p.rows) = Len(in)
           /\ p.status = "pending"
           /\ \A i \in 1..Len(p.rows) :
                /\ p.rows[i].timestamp = safeText(in[i].timestamp, 64)
                /\ p.rows[i].item_name = safeText(in[i].item, 96)
                /\ p.rows[i].qty = toInt(in[i].qty, 1, 9999)
                /\ Len(p.rows[i].timestamp) \in 1..64
                /\ Len(p.rows[i].item_name) \in 1..96
                /\ Clean(p.rows[i].item_name)
                /\ p.rows[i].qty \in 1..9999
                /\ p.rows[i].currency = "USD"

\* a payload of two rows was sent whose second input row had '<' and a control
\* character in an item longer than 96 characters
C9_Witness ==
    /\ Len(calls) = 1
    /\ body.json.rows = <<RowA, RowLong>>
    /\ Len(calls[1].body.json.rows) = 2

\* C10: in every downstream call the body is the serialized payload, the
\* body-hash header is the digest of that body, the signature header is the
\* MAC under the signing key of timestamp header, ".", body-hash header, the
\* timestamp was taken no earlier than the moment the last row passed
\* validation, and the signing key is no header value nor the address called;
\* the answer to the caller has no fields but ok, forwarded, status and body.
C10_EnvelopeConsistent ==
    \A c \in 1..Len(calls) :
        LET q == calls[c]
            h == q.headers
        IN /\ q.body = Stringify(payload)
           /\ q.body = env_sent.bodyString
           /\ h["X-Body-Hash"] = sha256base64(q.body)
           /\ h["X-Signature"] =
                hmacSha256Base64(SIGNING_KEY, signedMessage(h["X-Timestamp"], h["X-Body-Hash"]))
           /\ h["X-Timestamp"].iso >= tValidated
           /\ h["X-Timestamp"].iso <= now
           /\ \A k \in DOMAIN h : h[k] # Lit(SIGNING_KEY)
           /\ q.url # SIGNING_KEY
           /\ Returned => DOMAIN RespObj \subseteq {"ok", "forwarded", "status", "body"}

\* a call was made for a request whose validation ended after time had passed
\* since its arrival
C10_Witness == Len(calls) = 1 /\ tValidated > 0 /\ Returned

====
